---- MODULE Spec2Model ----
(***************************************************************************)
(* PosenetPointer: the frame loop (start / trackPosesLoop / trackPoses),   *)
(* the per-pose calculations (calculateXY, calculateHeadYaw,               *)
(* calculateHeadPitch, averagePoseStack, calculateZ), event dispatch and   *)
(* plugins, modelled as a state machine of the single-threaded JavaScript  *)
(* event loop: one action per synchronous step, other tasks run only while *)
(* no call is on the stack (pc = "idle").                                  *)
(***************************************************************************)
EXTENDS Integers, Sequences, FiniteSets, TLC

VARIABLES
  posenet,        \* this.posenet is set (the pose model is loaded)
  isTracking,     \* this._isTracking (undefined counts as false)
  posesDefined,   \* this.poses is set (an array, possibly empty)
  poses,          \* this.poses: the pose records of the latest estimate
  poseStack,      \* this.poseStack: track index -> history of {x, y}
  plugins,        \* this.plugins, in key insertion order: <<name, callback>>
  cacheArea,      \* this.cache.window.area
  outerWidth,     \* window.outerWidth
  outerHeight,    \* window.outerHeight
  resizeListeners,\* number of "resize" listeners setupFeed has registered
  resizePending,  \* the window changed size, its resize event is not yet delivered
  starts,         \* position of each start() call
  inflight,       \* trackPoses() calls awaiting their pose estimate
  rafQueue,       \* callbacks requestAnimationFrame holds for the next frame
  frameRemaining, \* callbacks of the current animation frame still to run
  pc,             \* position inside the running trackPosesLoop, or "idle"
  idx,            \* forEach index inside calculateXY / calculateZ / runPlugins
  caller,         \* who called the running trackPosesLoop: 0 = animation frame, s = start() call s
  host,           \* what the page around the instance does (fixed per behaviour)
  probe,          \* a calculation applied on its own: its input poses and its results
  \* ---- history variables (observations, never read by the program) ----
  pushed,         \* per track index: every sample ever pushed, in push order
  emitted,        \* posenetPointerUpdated events dispatched by the running pass
  called,         \* plugin callbacks invoked by the running pass, in order
  xyOrder,        \* indexes calculateXY has enriched in the running pass, in order
  sawStop,        \* some pass has ended with _isTracking false
  registry        \* per plugin name: the callback of the latest use(), and the
                  \* other callbacks earlier use() calls passed under that name

vars == <<posenet, isTracking, posesDefined, poses, poseStack, plugins, cacheArea,
          outerWidth, outerHeight, resizeListeners, resizePending, starts, inflight,
          rafQueue, frameRemaining, pc, idx, caller, host, pushed, emitted,
          called, xyOrder, sawStop, registry, probe>>

(***************************************************************************)
(* JavaScript numbers.  A finite number is a + b*pi with a, b rationals    *)
(* <<numerator, denominator>> (Math.PI enters only through the yaw and     *)
(* pitch angles); NaN, +Infinity, -Infinity and undefined are kept apart.  *)
(* Rounding of doubles is not modelled.                                    *)
(***************************************************************************)
RECURSIVE Gcd(_, _)
Gcd(a, b) == IF b = 0 THEN a ELSE Gcd(b, a % b)

AbsInt(n) == IF n < 0 THEN -n ELSE n

Rat(n, d) ==
  LET g == Gcd(AbsInt(n), AbsInt(d))
      s == IF d < 0 THEN -1 ELSE 1
  IN  <<(s * n) \div g, (s * d) \div g>>

RZero == <<0, 1>>
RAdd(p, q) == Rat(p[1] * q[2] + q[1] * p[2], p[2] * q[2])
RNeg(p) == <<-p[1], p[2]>>
RMul(p, q) == Rat(p[1] * q[1], p[2] * q[2])
RInv(p) == Rat(p[2], p[1])
RSign(p) == IF p[1] > 0 THEN 1 ELSE IF p[1] < 0 THEN -1 ELSE 0
RLess(p, q) == p[1] * q[2] < q[1] * p[2]

Fin(a, b) == [t |-> "fin", a |-> a, b |-> b]
Special(t) == [t |-> t, a |-> RZero, b |-> RZero]
NaN == Special("nan")
PInf == Special("pinf")
NInf == Special("ninf")
Undefined == Special("undef")
Q(r) == Fin(r, RZero)
Num(n) == Q(<<n, 1>>)
PI == Fin(RZero, <<1, 1>>)

IsFinite(u) == u.t = "fin"
IsInf(u) == u.t \in {"pinf", "ninf"}
IsNaNish(u) == u.t \in {"nan", "undef"}
InfOfSign(s) == IF s > 0 THEN PInf ELSE IF s < 0 THEN NInf ELSE NaN

\* The sign of a finite number; the code never needs it for a number that mixes
\* a rational part with a multiple of pi.
Sign(u) ==
  CASE u.t = "pinf" -> 1
    [] u.t = "ninf" -> -1
    [] u.t = "fin" /\ u.b = RZero -> RSign(u.a)
    [] u.t = "fin" /\ u.a = RZero -> RSign(u.b)

Neg(u) ==
  CASE u.t = "fin" -> Fin(RNeg(u.a), RNeg(u.b))
    [] u.t = "pinf" -> NInf
    [] u.t = "ninf" -> PInf
    [] OTHER -> NaN

Add(u, v) ==
  CASE IsNaNish(u) \/ IsNaNish(v) -> NaN
    [] IsInf(u) /\ IsInf(v) -> IF u.t = v.t THEN u ELSE NaN
    [] IsInf(u) -> u
    [] IsInf(v) -> v
    [] OTHER -> Fin(RAdd(u.a, v.a), RAdd(u.b, v.b))

Sub(u, v) == Add(u, Neg(v))

\* Of two finite factors one is always a plain rational in this program.
Mul(u, v) ==
  CASE IsNaNish(u) \/ IsNaNish(v) -> NaN
    [] IsInf(u) \/ IsInf(v) -> InfOfSign(Sign(u) * Sign(v))
    [] u.b = RZero -> Fin(RMul(u.a, v.a), RMul(u.a, v.b))
    [] v.b = RZero -> Fin(RMul(u.a, v.a), RMul(u.b, v.a))

\* The divisor is always a plain rational (or not finite) in this program.
Div(u, v) ==
  CASE IsNaNish(u) \/ IsNaNish(v) -> NaN
    [] IsInf(u) /\ IsInf(v) -> NaN
    [] IsInf(u) -> InfOfSign(Sign(u) * (IF Sign(v) = 0 THEN 1 ELSE Sign(v)))
    [] IsInf(v) -> Num(0)
    [] v.a = RZero /\ v.b = RZero -> InfOfSign(Sign(u))
    [] v.b = RZero -> Fin(RMul(u.a, RInv(v.a)), RMul(u.b, RInv(v.a)))

MathAbs(u) ==
  CASE IsNaNish(u) -> NaN
    [] IsInf(u) -> PInf
    [] OTHER -> IF Sign(u) < 0 THEN Neg(u) ELSE u

\* u > v and u >= v on plain rationals; any comparison with NaN is false.
Gt(u, v) == IsFinite(u) /\ IsFinite(v) /\ RLess(v.a, u.a)
Geq(u, v) == IsFinite(u) /\ IsFinite(v) /\ ~RLess(u.a, v.a)

(***************************************************************************)
(* Options and fixed dimensions                                            *)
(***************************************************************************)
\* options.poseStackSize (default 8): capacity of each history
PoseStackSize == 2
\* canvas.width / canvas.height as setupFeed sets them
CanvasWidth == 600
CanvasHeight == 500
\* options.posenet.minPartConfidence
MinPartConfidence == Q(<<1, 2>>)
MinPoseConfidence == Q(<<1, 10>>)

\* track indexes: positions in the pose array of a frame (multi-pose mode)
Tracks == {1, 2}

(***************************************************************************)
(* Bounds of the exploration                                               *)
(***************************************************************************)
MaxInflight == 2    \* pose estimates awaited at the same time
MaxPushes == 3      \* samples pushed per track before the exploration stops

(***************************************************************************)
(* Poses delivered by the pose estimator.  keypoints = FALSE is a pose     *)
(* whose keypoints are missing.                                            *)
(***************************************************************************)
Keypoint(x, y, score) == [position |-> [x |-> Num(x), y |-> Num(y)], score |-> Q(score)]

WellFormed(score, nose, leftEye, rightEye, leftEar, rightEar) ==
  [score |-> Q(score), hasKeypoints |-> TRUE,
   keypoints |-> [nose |-> nose, leftEye |-> leftEye, rightEye |-> rightEye,
                  leftEar |-> leftEar, rightEar |-> rightEar]]

\* centred face: eyes symmetric around the nose, ears level with the nose
PoseCentre ==
  WellFormed(<<9, 10>>, Keypoint(300, 250, <<9, 10>>),
             Keypoint(320, 240, <<9, 10>>), Keypoint(280, 240, <<9, 10>>),
             Keypoint(340, 250, <<1, 2>>), Keypoint(260, 250, <<9, 10>>))

\* head turned and tilted: unequal eye distances, one ear visible above the nose
PoseTurned ==
  WellFormed(<<9, 10>>, Keypoint(150, 100, <<9, 10>>),
             Keypoint(180, 90, <<9, 10>>), Keypoint(140, 90, <<9, 10>>),
             Keypoint(200, 80, <<9, 10>>), Keypoint(130, 95, <<1, 10>>))

\* degenerate geometry: no ear reaches the threshold, nose and eyes collinear
PoseDegenerate ==
  WellFormed(<<1, 20>>, Keypoint(300, 250, <<9, 10>>),
             Keypoint(320, 250, <<9, 10>>), Keypoint(280, 250, <<9, 10>>),
             Keypoint(340, 250, <<1, 10>>), Keypoint(260, 250, <<2, 5>>))

\* malformed: the keypoints are missing
PoseMalformed ==
  [score |-> Q(<<1, 2>>), hasKeypoints |-> FALSE,
   keypoints |-> PoseCentre.keypoints]

\* the pose arrays an estimate can resolve to (estimateSinglePose wrapped in an
\* array, or the array of estimateMultiplePoses, which may be empty)
PoseArrays ==
  { <<>>, <<PoseCentre>>, <<PoseDegenerate>>, <<PoseTurned, PoseCentre>>,
    <<PoseMalformed, PoseCentre>> }

WindowWidths == {1000, 1200}
WindowHeights == {800}

\* The pages explored.  Each behaviour has one kind of page around the
\* instance: one that calls start() and the stop signal repeatedly, one that
\* registers plugins, one whose window is resized.
Hosts ==
  { [restarts |-> TRUE, plugins |-> FALSE, resizes |-> FALSE],
    [restarts |-> FALSE, plugins |-> TRUE, resizes |-> FALSE],
    [restarts |-> FALSE, plugins |-> FALSE, resizes |-> TRUE] }

(***************************************************************************)
(* calculations.js, the pure parts                                         *)
(***************************************************************************)
\* a yaw that does not tell the two sides apart
calculateHeadYawUnsigned(pose) ==
  LET points == pose.keypoints
      left == MathAbs(Sub(points.leftEye.position.x, points.nose.position.x))
      right == MathAbs(Sub(points.rightEye.position.x, points.nose.position.x))
      distanceRatio == IF Gt(left, right)
                       THEN Sub(Num(1), Div(right, left))
                       ELSE Sub(Num(1), Div(left, right))
  IN  Div(Mul(Mul(distanceRatio, Num(90)), PI), Num(180))

\* a yaw left in degrees
calculateHeadYawDegrees(pose) ==
  LET points == pose.keypoints
      left == MathAbs(Sub(points.leftEye.position.x, points.nose.position.x))
      right == MathAbs(Sub(points.rightEye.position.x, points.nose.position.x))
      distanceRatio == IF Gt(left, right)
                       THEN Sub(Num(1), Div(right, left))
                       ELSE Sub(Num(1), Div(left, right))
      sideLookingAt == IF Gt(left, right) THEN Num(1) ELSE Num(-1)
  IN  Mul(Mul(distanceRatio, Num(90)), sideLookingAt)

calculateHeadYaw(pose) ==
  LET points == pose.keypoints
      left == MathAbs(Sub(points.leftEye.position.x, points.nose.position.x))
      right == MathAbs(Sub(points.rightEye.position.x, points.nose.position.x))
      distanceRatio == IF Gt(left, right)
                       THEN Sub(Num(1), Div(right, left))
                       ELSE Sub(Num(1), Div(left, right))
      sideLookingAt == IF Gt(left, right) THEN Num(1) ELSE Num(-1)
  IN  Div(Mul(Mul(Mul(distanceRatio, Num(90)), sideLookingAt), PI), Num(180))

\* a pitch measured against the eyes instead of the ears
calculateHeadPitchFromEyes(pose) ==
  LET points == pose.keypoints
      yEyeAverage == Div(Add(points.leftEye.position.y, points.rightEye.position.y), Num(2))
      eyeDistance == Sub(points.leftEye.position.x, points.rightEye.position.x)
      distanceRatio == Div(Sub(points.nose.position.y, yEyeAverage), eyeDistance)
  IN  Div(Mul(Mul(Num(90), distanceRatio), PI), Num(180))

\* a pitch that is 0 when no ear is found
calculateHeadPitchGuarded(pose) ==
  LET points == pose.keypoints
      leftFound == Geq(points.leftEar.score, MinPartConfidence)
      rightFound == Geq(points.rightEar.score, MinPartConfidence)
      numEarsFound == (IF leftFound THEN 1 ELSE 0) + (IF rightFound THEN 1 ELSE 0)
      ySum == Add(IF leftFound THEN points.leftEar.position.y ELSE Num(0),
                  IF rightFound THEN points.rightEar.position.y ELSE Num(0))
      yEarAverage == Div(ySum, Num(numEarsFound))
      eyeDistance == Sub(points.leftEye.position.x, points.rightEye.position.x)
      distanceRatio == Div(Sub(points.nose.position.y, yEarAverage), eyeDistance)
  IN  IF numEarsFound = 0 THEN Num(0)
      ELSE Div(Mul(Mul(Num(90), distanceRatio), PI), Num(180))

\* a pitch that leaves out an ear whose score is on the threshold
calculateHeadPitchStrict(pose) ==
  LET points == pose.keypoints
      leftFound == Gt(points.leftEar.score, MinPartConfidence)
      rightFound == Gt(points.rightEar.score, MinPartConfidence)
      numEarsFound == (IF leftFound THEN 1 ELSE 0) + (IF rightFound THEN 1 ELSE 0)
      ySum == Add(IF leftFound THEN points.leftEar.position.y ELSE Num(0),
                  IF rightFound THEN points.rightEar.position.y ELSE Num(0))
      yEarAverage == Div(ySum, Num(numEarsFound))
      eyeDistance == Sub(points.leftEye.position.x, points.rightEye.position.x)
      distanceRatio == Div(Sub(points.nose.position.y, yEarAverage), eyeDistance)
  IN  Div(Mul(Mul(Num(90), distanceRatio), PI), Num(180))

calculateHeadPitch(pose) ==
  LET points == pose.keypoints
      leftFound == Geq(points.leftEar.score, MinPartConfidence)
      rightFound == Geq(points.rightEar.score, MinPartConfidence)
      numEarsFound == (IF leftFound THEN 1 ELSE 0) + (IF rightFound THEN 1 ELSE 0)
      ySum == Add(IF leftFound THEN points.leftEar.position.y ELSE Num(0),
                  IF rightFound THEN points.rightEar.position.y ELSE Num(0))
      yEarAverage == Div(ySum, Num(numEarsFound))
      eyeDistance == Sub(points.leftEye.position.x, points.rightEye.position.x)
      distanceRatio == Div(Sub(points.nose.position.y, yEarAverage), eyeDistance)
  IN  Div(Mul(Mul(Num(90), distanceRatio), PI), Num(180))

RECURSIVE SumX(_), SumY(_)
SumX(stack) == IF stack = <<>> THEN Num(0) ELSE Add(SumX(SubSeq(stack, 1, Len(stack) - 1)), stack[Len(stack)].x)
SumY(stack) == IF stack = <<>> THEN Num(0) ELSE Add(SumY(SubSeq(stack, 1, Len(stack) - 1)), stack[Len(stack)].y)

\* an average that divides by the capacity instead of the number of held samples
averagePoseStackByCapacity(stack) ==
  [x |-> Div(SumX(stack), Num(PoseStackSize)), y |-> Div(SumY(stack), Num(PoseStackSize))]

\* an average whose y is computed from the x values
averagePoseStackCrossed(stack) ==
  [x |-> Div(SumX(stack), Num(Len(stack))), y |-> Div(SumX(stack), Num(Len(stack)))]

averagePoseStack(stack) ==
  [x |-> Div(SumX(stack), Num(Len(stack))), y |-> Div(SumY(stack), Num(Len(stack)))]

\* a raw coordinate that is not mirrored
RawXYUnmirrored(pose, envWidth, envHeight) ==
  LET nose == pose.keypoints.nose
      ratio == [width |-> Div(Num(envWidth), Num(CanvasWidth)),
                height |-> Div(Num(envHeight), Num(CanvasHeight))]
  IN  [x |-> Mul(nose.position.x, ratio.width), y |-> Mul(nose.position.y, ratio.height)]

\* calculateXY lines 39-52: the nose mapped from the canvas to the window, mirrored
RawXY(pose, envWidth, envHeight) ==
  LET nose == pose.keypoints.nose
      ratio == [width |-> Div(Num(envWidth), Num(CanvasWidth)),
                height |-> Div(Num(envHeight), Num(CanvasHeight))]
  IN  [x |-> Add(Mul(Neg(nose.position.x), ratio.width), Num(envWidth)),
       y |-> Mul(nose.position.y, ratio.height)]

\* calculateXY lines 54-58: the raw point shifted by the head rotation
ShiftedXY(pose, envWidth, envHeight) ==
  LET raw == RawXY(pose, envWidth, envHeight)
  IN  [x |-> Add(raw.x, Div(Mul(calculateHeadYaw(pose), Num(envWidth)), Num(2))),
       y |-> Add(raw.y, Div(Mul(calculateHeadPitch(pose), Num(envHeight)), Num(2)))]

\* a push that drops the newest sample instead of the oldest (pop for shift)
PushSampleDropsNewest(stack, sample) ==
  LET grown == Append(stack, sample)
  IN  IF Len(grown) > PoseStackSize THEN SubSeq(grown, 1, PoseStackSize) ELSE grown

\* calculateXY lines 61-64: push, then shift() once the length exceeds the capacity
PushSample(stack, sample) ==
  LET grown == Append(stack, sample)
  IN  IF Len(grown) > PoseStackSize THEN Tail(grown) ELSE grown

\* calculateZ lines 198-216
TriangleArea(pose) ==
  LET k == pose.keypoints
      x0 == k.nose.position.x
      x1 == k.leftEye.position.x
      x2 == k.rightEye.position.x
      y0 == k.nose.position.y
      y1 == k.leftEye.position.y
      y2 == k.rightEye.position.y
      plus == Add(Add(Mul(x0, y1), Mul(x1, y2)), Mul(x2, y0))
      minus == Add(Add(Mul(x1, y0), Mul(x2, y1)), Mul(x0, y2))
  IN  Mul(Q(<<1, 2>>), MathAbs(Sub(plus, minus)))

\* a depth that grows with the triangle
DistanceInverse(pose, area) == Div(TriangleArea(pose), area)

Distance(pose, area) == Div(area, TriangleArea(pose))

\* debug.js, debugPoses.  The canvas is the set of overlays it shows, the
\* overlay of a pose (its skeleton and keypoints) being given by its keypoints;
\* a pose that reaches minPoseConfidence clears the canvas and is then drawn
DrawPose(canvas, pose) ==
  IF Geq(pose.score, MinPoseConfidence) THEN {pose.keypoints} ELSE canvas

RECURSIVE debugPoses(_, _)
debugPoses(ps, canvas) ==
  IF ps = <<>> THEN canvas ELSE debugPoses(Tail(ps), DrawPose(canvas, ps[1]))

(***************************************************************************)
(* The instance after construction (constructor, configure)                *)
(***************************************************************************)
\* use(name, cb) calls a page makes; the callback "boom" throws when invoked
PluginNames == {"pointer", "logger"}
Callbacks == {"f", "g", "boom"}
Registrations == {<<"pointer", "f">>, <<"pointer", "boom">>, <<"logger", "g">>}
Throws(cb) == cb = "boom"

\* the start() calls a page makes on the instance
StartIds == {1, 2}

Fresh(pose) ==
  [score |-> pose.score, hasKeypoints |-> pose.hasKeypoints, keypoints |-> pose.keypoints,
   pointedAt |-> [x |-> Undefined, y |-> Undefined, z |-> Undefined],
   angles |-> [pitch |-> Undefined, yaw |-> Undefined],
   samples |-> 0]   \* history field: samples this pose object has contributed

\* no calculation is applied on its own
NoOut == [yaw |-> <<Undefined, Undefined>>, z |-> <<Undefined, Undefined>>,
          raw |-> [x |-> Undefined, y |-> Undefined], first |-> Fresh(PoseCentre),
          later |-> Fresh(PoseCentre), canvas |-> {}]
NoProbe == [phase |-> "off", pose |-> PoseCentre, other |-> PoseCentre, canvas |-> {},
            out |-> NoOut]

Init ==
  /\ posenet = FALSE
  /\ isTracking = FALSE
  /\ posesDefined = FALSE
  /\ poses = <<>>
  /\ poseStack = [k \in Tracks |-> <<>>]
  /\ plugins = <<>>
  /\ cacheArea = Num(0)
  /\ outerWidth \in WindowWidths
  /\ outerHeight \in WindowHeights
  /\ resizeListeners = 0
  /\ resizePending = FALSE
  /\ starts = [s \in StartIds |-> "none"]
  /\ inflight = 0
  /\ rafQueue = 0
  /\ frameRemaining = 0
  /\ pc = "idle"
  /\ idx = 0
  /\ caller = 0
  /\ host \in Hosts
  /\ pushed = [k \in Tracks |-> <<>>]
  /\ emitted = 0
  /\ called = <<>>
  /\ xyOrder = <<>>
  /\ sawStop = FALSE
  /\ registry = [n \in PluginNames |-> [latest |-> "none", earlier |-> {}]]
  /\ probe = NoProbe

\* no call is on the stack and no animation frame is being served
Idle == pc = "idle" /\ frameRemaining = 0

\* exploration bound: a further pass may begin
CanPass ==
  /\ inflight < MaxInflight
  /\ \A k \in Tracks : Len(pushed[k]) < MaxPushes

passVars == <<pc, idx, caller, emitted, called, xyOrder>>
loopVars == <<rafQueue, frameRemaining, sawStop>>
windowVars == <<cacheArea, outerWidth, outerHeight, resizeListeners, resizePending>>
poseVars == <<posesDefined, poses, poseStack, pushed>>

(***************************************************************************)
(* start(cb)                                                               *)
(***************************************************************************)
\* start() up to the first await: setupFeed caches the window area, registers
\* its resize listener and awaits getUserMedia
Start(s) ==
  /\ Idle
  /\ starts[s] = "none"
  /\ \A r \in StartIds : r < s => (host.restarts /\ starts[r] # "none")
  /\ cacheArea' = Mul(Num(outerWidth), Num(outerHeight))
  /\ resizeListeners' = resizeListeners + 1
  /\ starts' = [starts EXCEPT ![s] = "feed"]
  /\ UNCHANGED <<host, probe, registry, posenet, isTracking, plugins, outerWidth, outerHeight, resizePending,
                 inflight, passVars, loopVars, poseVars>>

\* lines 22-23 of start(): this._isTracking = true; trackPosesLoop(this) is entered
EnterLoop(s) ==
  /\ CanPass
  /\ isTracking' = TRUE
  /\ starts' = [starts EXCEPT ![s] = "looping"]
  /\ pc' = "loop"
  /\ caller' = s

\* a start() that goes on to the loop without waiting for the pose model
FeedReadySkipsModel(s) ==
  /\ Idle
  /\ starts[s] = "feed"
  /\ EnterLoop(s)
  /\ UNCHANGED <<host, probe, registry, posenet, plugins, windowVars, inflight, idx, emitted, called, xyOrder,
                 loopVars, poseVars>>

\* getUserMedia resolves: setupFeed returns and initPosenet runs; it awaits
\* Posenet.load unless this.posenet is set, and then start() goes on to the loop
FeedReady(s) ==
  /\ Idle
  /\ starts[s] = "feed"
  /\ IF posenet
     THEN EnterLoop(s)
     ELSE /\ starts' = [starts EXCEPT ![s] = "load"]
          /\ UNCHANGED <<isTracking, pc, caller>>
  /\ UNCHANGED <<host, probe, registry, posenet, plugins, windowVars, inflight, idx, emitted, called, xyOrder,
                 loopVars, poseVars>>

\* getUserMedia rejects: start() rejects and goes no further
FeedRefused(s) ==
  /\ Idle
  /\ starts[s] = "feed"
  /\ starts' = [starts EXCEPT ![s] = "failed"]
  /\ UNCHANGED <<host, probe, registry, posenet, isTracking, plugins, windowVars, inflight, passVars,
                 loopVars, poseVars>>

\* Posenet.load resolves: this.posenet is assigned and start() goes on to the loop
ModelLoaded(s) ==
  /\ Idle
  /\ starts[s] = "load"
  /\ posenet' = TRUE
  /\ EnterLoop(s)
  /\ UNCHANGED <<host, probe, registry, plugins, windowVars, inflight, idx, emitted, called, xyOrder,
                 loopVars, poseVars>>

(***************************************************************************)
(* trackPosesLoop(context), one action per synchronous step                *)
(***************************************************************************)
\* the running pass returns to its caller (the animation frame, or start(),
\* which goes on to its callback), or is left by an exception (which start()
\* turns into its rejection)
Leave(normal) ==
  /\ pc' = IF normal /\ caller # 0 THEN "cb" ELSE "idle"
  /\ idx' = 0
  /\ caller' = IF normal THEN caller ELSE 0
  /\ emitted' = 0
  /\ called' = <<>>
  /\ xyOrder' = <<>>
  /\ starts' = IF caller # 0 /\ ~normal THEN [starts EXCEPT ![caller] = "failed"]
               ELSE starts

\* line 24 of start(): cb && cb(), in the microtask after trackPosesLoop returned
StartCallback ==
  /\ pc = "cb"
  /\ starts' = [starts EXCEPT ![caller] = "done"]
  /\ pc' = "idle"
  /\ caller' = 0
  /\ UNCHANGED <<host, probe, registry, posenet, isTracking, plugins, windowVars, inflight, idx, emitted, called,
                 xyOrder, loopVars, poseVars>>

\* line 36-37: trackPoses() is called (and not awaited), then poses is tested
LoopTrackPoses ==
  /\ pc = "loop"
  /\ inflight' = IF posenet THEN inflight + 1 ELSE inflight
  /\ pc' = IF posesDefined THEN "calcXY" ELSE "sched"
  /\ idx' = 1
  /\ UNCHANGED <<host, probe, registry, posenet, isTracking, plugins, windowVars, starts, caller, emitted,
                 called, xyOrder, loopVars, poseVars>>

\* a calculateXY whose pitch grows with the number of samples held
EnrichXYPitchAccumulated(pose, stack) ==
  LET average == averagePoseStack(stack)
  IN  [pose EXCEPT !.pointedAt = [x |-> average.x, y |-> average.y, z |-> Undefined],
                   !.angles = [pitch |-> Mul(calculateHeadPitch(pose), Num(Len(stack))),
                               yaw |-> calculateHeadYaw(pose)],
                   !.samples = @ + 1]

\* calculateXY, one pose of the forEach
EnrichXY(pose, stack) ==
  LET average == averagePoseStack(stack)
  IN  [pose EXCEPT !.pointedAt = [x |-> average.x, y |-> average.y, z |-> Undefined],
                   !.angles = [pitch |-> calculateHeadPitch(pose), yaw |-> calculateHeadYaw(pose)],
                   !.samples = @ + 1]

\* every pose sharing the first history
StackIndexShared(index) == 1

\* the history index calculateXY reads and writes for the pose at index
StackIndex(index) == index

CalculateXYPose ==
  /\ pc = "calcXY"
  /\ idx <= Len(poses)
  /\ poses[idx].hasKeypoints
  /\ LET index == StackIndex(idx)
         sample == ShiftedXY(poses[idx], outerWidth, outerHeight)
         stack == PushSample(poseStack[index], sample)
     IN  /\ poseStack' = [poseStack EXCEPT ![index] = stack]
         /\ pushed' = [pushed EXCEPT ![index] = Append(@, sample)]
         /\ poses' = [poses EXCEPT ![idx] = EnrichXY(@, stack)]
  /\ xyOrder' = Append(xyOrder, idx)
  /\ idx' = idx + 1
  /\ UNCHANGED <<host, probe, registry, posenet, isTracking, posesDefined, plugins, windowVars, starts, inflight,
                 pc, caller, emitted, called, loopVars>>

\* pose.keypoints[0] on a pose without keypoints throws a TypeError, which
\* leaves forEach, calculateXY, runCalculations and trackPosesLoop
CalculateXYThrow ==
  /\ pc = "calcXY"
  /\ idx <= Len(poses)
  /\ ~poses[idx].hasKeypoints
  /\ Leave(FALSE)
  /\ UNCHANGED <<host, probe, registry, posenet, isTracking, plugins, windowVars, inflight, loopVars, poseVars>>

\* a calculateXY that empties the histories of the indexes the frame does not have
CalculateXYDoneDropsMissing ==
  /\ pc = "calcXY"
  /\ idx > Len(poses)
  /\ pc' = "calcZ"
  /\ idx' = 1
  /\ poseStack' = [k \in Tracks |-> IF k > Len(poses) THEN <<>> ELSE poseStack[k]]
  /\ UNCHANGED <<host, probe, registry, posenet, isTracking, plugins, windowVars, starts, inflight, caller,
                 emitted, called, xyOrder, loopVars, posesDefined, poses, pushed>>

CalculateXYDone ==
  /\ pc = "calcXY"
  /\ idx > Len(poses)
  /\ pc' = "calcZ"
  /\ idx' = 1
  /\ UNCHANGED <<host, probe, registry, posenet, isTracking, plugins, windowVars, starts, inflight, caller,
                 emitted, called, xyOrder, loopVars, poseVars>>

\* a calculateZ that computes the distance and does not assign it
EnrichZUnassigned(pose, area) == pose

\* calculateZ, one pose of the forEach
EnrichZ(pose, area) == [pose EXCEPT !.pointedAt.z = Distance(pose, area)]

CalculateZPose ==
  /\ pc = "calcZ"
  /\ idx <= Len(poses)
  /\ poses' = [poses EXCEPT ![idx] = EnrichZ(@, cacheArea)]
  /\ idx' = idx + 1
  /\ UNCHANGED <<host, probe, registry, posenet, isTracking, posesDefined, poseStack, pushed, plugins, windowVars,
                 starts, inflight, pc, caller, emitted, called, xyOrder, loopVars>>

CalculateZDone ==
  /\ pc = "calcZ"
  /\ idx > Len(poses)
  /\ pc' = "emitCalc"
  /\ idx' = 0
  /\ UNCHANGED <<host, probe, registry, posenet, isTracking, plugins, windowVars, starts, inflight, caller,
                 emitted, called, xyOrder, loopVars, poseVars>>

\* emitEvents(): one posenetPointerUpdated event is dispatched synchronously
emitEvents == emitted' = emitted + 1

\* runCalculations line 8
RunCalculationsEmit ==
  /\ pc = "emitCalc"
  /\ emitEvents
  /\ pc' = "emitLoop"
  /\ UNCHANGED <<host, probe, registry, posenet, isTracking, plugins, windowVars, starts, inflight, idx, caller,
                 called, xyOrder, loopVars, poseVars>>

\* trackPosesLoop line 39
LoopEmit ==
  /\ pc = "emitLoop"
  /\ emitEvents
  /\ pc' = "plugins"
  /\ idx' = 1
  /\ UNCHANGED <<host, probe, registry, posenet, isTracking, plugins, windowVars, starts, inflight, caller,
                 called, xyOrder, loopVars, poseVars>>

\* runPlugins, one key of Object.keys(this.plugins)
RunPlugin ==
  /\ pc = "plugins"
  /\ idx <= Len(plugins)
  /\ ~Throws(plugins[idx][2])
  /\ called' = Append(called, plugins[idx])
  /\ idx' = idx + 1
  /\ UNCHANGED <<host, probe, registry, posenet, isTracking, plugins, windowVars, starts, inflight, pc, caller,
                 emitted, xyOrder, loopVars, poseVars>>

\* a callback that throws leaves forEach, runPlugins and trackPosesLoop
RunPluginThrow ==
  /\ pc = "plugins"
  /\ idx <= Len(plugins)
  /\ Throws(plugins[idx][2])
  /\ Leave(FALSE)
  /\ UNCHANGED <<host, probe, registry, posenet, isTracking, plugins, windowVars, inflight, loopVars, poseVars>>

RunPluginsDone ==
  /\ pc = "plugins"
  /\ idx > Len(plugins)
  /\ pc' = "sched"
  /\ idx' = 0
  /\ UNCHANGED <<host, probe, registry, posenet, isTracking, plugins, windowVars, starts, inflight, caller,
                 emitted, called, xyOrder, loopVars, poseVars>>

\* line 43-44: context._isTracking && requestAnimationFrame(...), then return
Schedule ==
  /\ pc = "sched"
  /\ rafQueue' = IF isTracking THEN rafQueue + 1 ELSE rafQueue
  /\ sawStop' = (sawStop \/ ~isTracking)
  /\ Leave(TRUE)
  /\ UNCHANGED <<host, probe, registry, posenet, isTracking, plugins, windowVars, inflight, frameRemaining,
                 poseVars>>

(***************************************************************************)
(* The browser and the callers of the instance                             *)
(***************************************************************************)
\* an animation frame begins: the callbacks queued so far are this frame's
AnimationFrame ==
  /\ Idle
  /\ ~resizePending
  /\ rafQueue > 0
  /\ frameRemaining' = rafQueue
  /\ rafQueue' = 0
  /\ UNCHANGED <<host, probe, registry, posenet, isTracking, plugins, windowVars, starts, inflight, passVars,
                 sawStop, poseVars>>

\* the frame runs its next callback: () => this.trackPosesLoop(context)
RunFrameCallback ==
  /\ pc = "idle"
  /\ frameRemaining > 0
  /\ CanPass
  /\ frameRemaining' = frameRemaining - 1
  /\ pc' = "loop"
  /\ caller' = 0
  /\ UNCHANGED <<host, probe, registry, posenet, isTracking, plugins, windowVars, starts, inflight, idx, emitted,
                 called, xyOrder, rafQueue, sawStop, poseVars>>

\* trackPoses lines 63-78: an awaited estimate resolves and this.poses is replaced
PoseEstimated ==
  /\ Idle
  /\ inflight > 0
  /\ inflight' = inflight - 1
  /\ \E estimate \in PoseArrays :
       poses' = [i \in 1..Len(estimate) |-> Fresh(estimate[i])]
  /\ posesDefined' = TRUE
  /\ UNCHANGED <<host, probe, registry, posenet, isTracking, poseStack, pushed, plugins, windowVars, starts,
                 passVars, loopVars>>

\* a use() that adds an entry even when the name is registered already
UsePluginsAppend(name, cb) == Append(plugins, <<name, cb>>)

\* use(name, cb): a key that exists keeps its place, a new key goes last
UsePlugins(name, cb) ==
  IF \E i \in 1..Len(plugins) : plugins[i][1] = name
  THEN [i \in 1..Len(plugins) |-> IF plugins[i][1] = name THEN <<name, cb>> ELSE plugins[i]]
  ELSE Append(plugins, <<name, cb>>)

Use(name, cb) ==
  /\ Idle
  /\ host.plugins
  /\ plugins' = UsePlugins(name, cb)
  /\ plugins' # plugins
  /\ registry' = [registry EXCEPT ![name] =
                    [latest |-> cb,
                     earlier |-> (registry[name].earlier \cup {registry[name].latest})
                                   \ {cb, "none"}]]
  /\ UNCHANGED <<host, probe, posenet, isTracking, windowVars, starts, inflight, passVars, loopVars,
                 poseVars>>

\* the external stop signal: _isTracking is set to false
StopTracking ==
  /\ Idle
  /\ host.restarts
  /\ isTracking
  /\ isTracking' = FALSE
  /\ UNCHANGED <<host, probe, registry, posenet, plugins, windowVars, starts, inflight, passVars, loopVars,
                 poseVars>>

\* the window changes size; its resize event is delivered later
WindowResize ==
  /\ Idle
  /\ host.resizes
  /\ ~resizePending
  /\ outerWidth' \in WindowWidths
  /\ outerHeight' \in WindowHeights
  /\ <<outerWidth', outerHeight'>> # <<outerWidth, outerHeight>>
  /\ resizePending' = TRUE
  /\ UNCHANGED <<host, probe, registry, posenet, isTracking, plugins, cacheArea, resizeListeners, starts,
                 inflight, passVars, loopVars, poseVars>>

\* a resize event whose listener does not recompute the area
ResizeDeliveredIgnored ==
  /\ Idle
  /\ resizePending
  /\ resizePending' = FALSE
  /\ UNCHANGED <<host, probe, registry, posenet, isTracking, plugins, cacheArea, outerWidth, outerHeight,
                 resizeListeners, starts, inflight, passVars, loopVars, poseVars>>

\* the resize event is delivered: every listener setupFeed registered runs
ResizeDelivered ==
  /\ Idle
  /\ resizePending
  /\ resizePending' = FALSE
  /\ cacheArea' = IF resizeListeners > 0
                  THEN Mul(Num(outerWidth), Num(outerHeight)) ELSE cacheArea
  /\ UNCHANGED <<host, probe, registry, posenet, isTracking, plugins, outerWidth, outerHeight, resizeListeners,
                 starts, inflight, passVars, loopVars, poseVars>>

Next ==
  \/ \E s \in StartIds : Start(s)
  \/ \E s \in StartIds : FeedReady(s)
  \/ \E s \in StartIds : FeedRefused(s)
  \/ \E s \in StartIds : ModelLoaded(s)
  \/ StartCallback
  \/ LoopTrackPoses
  \/ CalculateXYPose
  \/ CalculateXYThrow
  \/ CalculateXYDone
  \/ CalculateZPose
  \/ CalculateZDone
  \/ RunCalculationsEmit
  \/ LoopEmit
  \/ RunPlugin
  \/ RunPluginThrow
  \/ RunPluginsDone
  \/ Schedule
  \/ AnimationFrame
  \/ RunFrameCallback
  \/ PoseEstimated
  \/ \E r \in Registrations : Use(r[1], r[2])
  \/ StopTracking
  \/ WindowResize
  \/ ResizeDelivered

Spec == Init /\ [][Next]_vars

(***************************************************************************)
(* The calculations applied on their own.  The inputs (two poses, the      *)
(* window size, the cached window area) are drawn in ProbeInit; each       *)
(* action applies one calculation to them and records what it returns.     *)
(***************************************************************************)
ProbeNoseXs == {0, 300, 600}
ProbeNoseYs == {0, 250, 500}
ProbeLeftEyeDXs == {0, 20, 40}
ProbeRightEyeDXs == {-40, -20, 0, 20}
ProbeLeftEyeDYs == {-10, 0}
ProbeEarDYs == {-20, 0}
ProbeViewports == {<<1000, 800>>, <<600, 500>>}

\* a pose given by its nose and the offsets of the left eye, the right eye and
\* the ears from the nose
ProbePose(nx, ny, dl, dr, dy, ear) ==
  WellFormed(<<9, 10>>, Keypoint(nx, ny, <<9, 10>>),
             Keypoint(nx + dl, ny + dy, <<9, 10>>), Keypoint(nx + dr, ny - 10, <<9, 10>>),
             Keypoint(nx + 40, ny + ear, <<9, 10>>), Keypoint(nx - 40, ny + ear, <<3, 5>>))

\* two poses of one nose and one pair of ears, the eyes of each chosen freely
ProbeInputs ==
  {[pose |-> ProbePose(nx, ny, dl, dr, dy, ear), other |-> ProbePose(nx, ny, dl2, dr2, dy2, ear)] :
     nx \in ProbeNoseXs, ny \in ProbeNoseYs, ear \in ProbeEarDYs,
     dl \in ProbeLeftEyeDXs, dr \in ProbeRightEyeDXs, dy \in ProbeLeftEyeDYs,
     dl2 \in ProbeLeftEyeDXs, dr2 \in ProbeRightEyeDXs, dy2 \in ProbeLeftEyeDYs}

\* the ears of a probe pose: their offsets from the nose y and their scores
\* (both above the threshold; the left ear on the threshold and the right one
\* below; the right ear on the threshold and the left one below; both below;
\* both above and level with the nose)
ProbeEars ==
  { [l |-> -20, r |-> 10, ls |-> <<9, 10>>, rs |-> <<3, 5>>],
    [l |-> -20, r |-> 10, ls |-> <<1, 2>>, rs |-> <<1, 10>>],
    [l |-> -20, r |-> 10, ls |-> <<2, 5>>, rs |-> <<1, 2>>],
    [l |-> -20, r |-> 10, ls |-> <<1, 10>>, rs |-> <<2, 5>>],
    [l |-> 0, r |-> 0, ls |-> <<9, 10>>, rs |-> <<3, 5>>] }

ProbePoseEars(nx, ny, dl, dr, dy, ears) ==
  WellFormed(<<9, 10>>, Keypoint(nx, ny, <<9, 10>>),
             Keypoint(nx + dl, ny + dy, <<9, 10>>), Keypoint(nx + dr, ny - 10, <<9, 10>>),
             Keypoint(nx + 40, ny + ears.l, ears.ls), Keypoint(nx - 40, ny + ears.r, ears.rs))

\* one pose with its nose in the middle of the canvas, eyes and ears chosen freely
ProbeSingles ==
  {ProbePoseEars(300, 250, dl, dr, dy, ears) :
     dl \in ProbeLeftEyeDXs, dr \in ProbeRightEyeDXs, dy \in ProbeLeftEyeDYs,
     ears \in ProbeEars}

\* the history earlier frames have left for the index of the pose
ProbeHistories ==
  { <<>>,
    <<[x |-> Num(100), y |-> Num(200)]>>,
    <<[x |-> Num(100), y |-> Num(200)], [x |-> Num(700), y |-> Num(50)]>> }

\* the poses of a frame handed to debugPoses, and what the canvas holds before
\* (nothing, or the overlay of an earlier frame)
ProbeFrames ==
  { <<>>, <<PoseCentre>>, <<PoseDegenerate>>, <<PoseTurned, PoseCentre>>,
    <<PoseDegenerate, PoseCentre>>, <<PoseCentre, PoseDegenerate>> }
ProbeCanvases == { {}, {PoseTurned.keypoints} }

ProbeInit ==
  /\ posenet = FALSE
  /\ isTracking = FALSE
  /\ \/ /\ posesDefined = FALSE
        /\ poses = <<>>
        /\ poseStack = [k \in Tracks |-> <<>>]
        /\ probe \in {[phase |-> "input", pose |-> i.pose, other |-> i.other, canvas |-> {},
                        out |-> NoOut] : i \in ProbeInputs}
     \/ /\ posesDefined = FALSE
        /\ poses = <<>>
        /\ \E h \in ProbeHistories : poseStack = [k \in Tracks |-> IF k = 1 THEN h ELSE <<>>]
        /\ probe \in {[phase |-> "input", pose |-> i, other |-> i, canvas |-> {},
                        out |-> NoOut] : i \in ProbeSingles}
     \/ /\ posesDefined = TRUE
        /\ \E frame \in ProbeFrames : poses = [i \in 1..Len(frame) |-> Fresh(frame[i])]
        /\ poseStack = [k \in Tracks |-> <<>>]
        /\ probe \in {[phase |-> "input", pose |-> PoseCentre, other |-> PoseCentre,
                        canvas |-> c, out |-> NoOut] : c \in ProbeCanvases}
  /\ plugins = <<>>
  /\ \E v \in ProbeViewports :
       /\ outerWidth = v[1]
       /\ outerHeight = v[2]
       /\ cacheArea = Num(v[1] * v[2])
  /\ resizeListeners = 0
  /\ resizePending = FALSE
  /\ starts = [s \in StartIds |-> "none"]
  /\ inflight = 0
  /\ rafQueue = 0
  /\ frameRemaining = 0
  /\ pc = "idle"
  /\ idx = 0
  /\ caller = 0
  /\ host = [restarts |-> FALSE, plugins |-> FALSE, resizes |-> FALSE]
  /\ pushed = poseStack
  /\ emitted = 0
  /\ called = <<>>
  /\ xyOrder = <<>>
  /\ sawStop = FALSE
  /\ registry = [n \in PluginNames |-> [latest |-> "none", earlier |-> {}]]

instanceVars == <<posenet, isTracking, posesDefined, poses, poseStack, plugins, cacheArea,
                  outerWidth, outerHeight, resizeListeners, resizePending, starts, inflight,
                  rafQueue, frameRemaining, pc, idx, caller, host, pushed, emitted,
                  called, xyOrder, sawStop, registry>>

\* calculateHeadYaw applied to both poses
ProbeYaw ==
  /\ probe.phase = "input"
  /\ ~posesDefined
  /\ probe' = [probe EXCEPT !.phase = "yaw",
                            !.out.yaw = <<calculateHeadYaw(probe.pose),
                                          calculateHeadYaw(probe.other)>>]
  /\ UNCHANGED instanceVars

\* calculateZ applied to both poses with the cached window area
ProbeZ ==
  /\ probe.phase = "yaw"
  /\ probe' = [probe EXCEPT !.phase = "z",
                            !.out.z = <<EnrichZ(Fresh(probe.pose), cacheArea).pointedAt.z,
                                        EnrichZ(Fresh(probe.other), cacheArea).pointedAt.z>>]
  /\ UNCHANGED instanceVars

\* calculateXY applied to the first pose: the raw coordinate, the pose as
\* enriched in the first pass of its track (the history of that one sample),
\* and the pose as enriched by calculateXY and calculateZ in a pass that finds
\* the history earlier frames have left at index 1
ProbeXY ==
  /\ probe.phase = "z"
  /\ LET sample == ShiftedXY(probe.pose, outerWidth, outerHeight)
         stack == PushSample(<<>>, sample)
         held == PushSample(poseStack[StackIndex(1)], sample)
     IN  probe' = [probe EXCEPT !.phase = "xy",
                                !.out.raw = RawXY(probe.pose, outerWidth, outerHeight),
                                !.out.first = EnrichXY(Fresh(probe.pose), stack),
                                !.out.later = EnrichZ(EnrichXY(Fresh(probe.pose), held),
                                                      cacheArea)]
  /\ UNCHANGED instanceVars

\* debugPoses applied to this.poses and the canvas
ProbeDebug ==
  /\ probe.phase = "input"
  /\ posesDefined
  /\ probe' = [probe EXCEPT !.phase = "debug",
                            !.out.canvas = debugPoses(poses, probe.canvas)]
  /\ UNCHANGED instanceVars

ProbeNext == ProbeYaw \/ ProbeZ \/ ProbeXY \/ ProbeDebug

ProbeSpec == ProbeInit /\ [][ProbeNext]_vars

(***************************************************************************)
(* Properties                                                              *)
(***************************************************************************)
Min(a, b) == IF a < b THEN a ELSE b
LastN(seq, n) == SubSeq(seq, Len(seq) - n + 1, Len(seq))
Range(seq) == {seq[i] : i \in 1..Len(seq)}
Determinate(point) == IsFinite(point.x) /\ IsFinite(point.y)
Indeterminate(seq) == {i \in 1..Len(seq) : ~Determinate(seq[i])}
XY(point) == [x |-> point.x, y |-> point.y]

\* C1: for every track index, the history holds exactly the most recent
\* min(n, poseStackSize) of the n samples pushed for that index, in push order;
\* its length never exceeds poseStackSize (so each eviction removed the oldest).
C1_BoundedHistory ==
  \A k \in Tracks :
    /\ Len(poseStack[k]) <= PoseStackSize
    /\ poseStack[k] = LastN(pushed[k], Min(Len(pushed[k]), PoseStackSize))

\* C1 witness: more samples than the capacity were pushed for a track, the
\* evicted sample differing from the newest.
C1_Witness ==
  \E k \in Tracks :
    /\ Len(pushed[k]) > PoseStackSize
    /\ Len(poseStack[k]) = PoseStackSize
    /\ pushed[k][Len(pushed[k]) - PoseStackSize] # pushed[k][Len(pushed[k])]

\* C2: a pass in which poses are present dispatches posenetPointerUpdated
\* exactly once and invokes each registered plugin callback exactly once: when
\* the pass reaches its scheduling line, one event was dispatched and the
\* callbacks invoked are the registered ones, once each.
C2_HandedOffOnce ==
  (pc = "sched" /\ posesDefined) => (emitted = 1 /\ called = plugins)

\* C3: a malformed pose does not abort the batch: whenever calculateXY is left,
\* every pose of the frame that has its keypoints has been enriched.
C3_BatchNotAborted ==
  [][(pc = "calcXY" /\ pc' # "calcXY") =>
       \A i \in 1..Len(poses) : poses[i].hasKeypoints => i \in Range(xyOrder)]_vars

\* C4: a track whose geometry was degenerate in at most one frame has a
\* determinate smoothed x/y in every frame in which its geometry is well formed
\* (in particular a track that never was degenerate is never degraded).
C4_DegradedOneFrameOnly ==
  \A i \in Range(xyOrder) :
    (Cardinality(Indeterminate(pushed[i])) <= 1 /\ Determinate(pushed[i][Len(pushed[i])]))
      => Determinate(poses[i].pointedAt)

\* C5: every pose snapshot the estimator delivers is enriched by exactly one
\* pass: no pose object ever contributes a second sample, and a snapshot is
\* replaced by the next estimate only after it has contributed its sample.
C5_EnrichedExactlyOnce ==
  [][/\ \A i \in 1..Len(poses') : poses'[i].samples <= 1
     /\ (inflight' < inflight /\ posesDefined) =>
          \A i \in 1..Len(poses) : poses[i].samples = 1]_vars

\* C6: at most one scheduled pass is pending at any time, so that an animation
\* frame runs at most one pass, whatever start() calls were made.
C6_OnePendingPass == rafQueue + frameRemaining <= 1

\* C7: once a pass has ended with _isTracking false no pass is scheduled any
\* more and the histories are never modified again; a pass that ends with the
\* flag true schedules exactly one pass.
C7_StoppedStaysStopped ==
  [][/\ sawStop => (rafQueue' <= rafQueue /\ poseStack' = poseStack)
     /\ (pc = "sched" /\ isTracking) => rafQueue' = rafQueue + 1
     /\ (pc = "sched" /\ ~isTracking) => rafQueue' = rafQueue]_vars

\* the running pass is about to dispatch the event or to invoke a plugin callback
Observed ==
  \/ pc \in {"emitCalc", "emitLoop"}
  \/ pc = "plugins" /\ idx <= Len(plugins)

\* C8: whenever a listener of posenetPointerUpdated or a plugin callback is
\* handed the poses, poses is set and every pose carries pointedAt x, y, z and
\* angles yaw, pitch computed from its own keypoints; calculateXY enriches the
\* poses in array order.
C8_ObserversSeeEnrichedPoses ==
  /\ Observed =>
       /\ posesDefined
       /\ \A i \in 1..Len(poses) :
            /\ poses[i].pointedAt.x # Undefined
            /\ poses[i].pointedAt.y # Undefined
            /\ poses[i].pointedAt.z # Undefined
            /\ poses[i].pointedAt.z = Distance(poses[i], cacheArea)
            /\ poses[i].angles.yaw = calculateHeadYaw(poses[i])
            /\ poses[i].angles.pitch = calculateHeadPitch(poses[i])
  /\ xyOrder = [i \in 1..Len(xyOrder) |-> i]
  /\ pc = "calcXY" => Len(xyOrder) = idx - 1

\* C8 witness: a plugin callback is about to be handed two enriched poses.
C8_Witness ==
  /\ pc = "plugins"
  /\ idx <= Len(plugins)
  /\ Len(poses) = 2
  /\ poses[1].angles.yaw # poses[2].angles.yaw

\* C9: enriching the pose at index k leaves the history of every other index
\* unchanged, and the smoothed pointedAt of index k is the average of the
\* history of index k.
C9_TracksIsolated ==
  [][(pc = "calcXY" /\ xyOrder' # xyOrder) =>
       /\ \A j \in Tracks \ {idx} : poseStack'[j] = poseStack[j]
       /\ XY(poses'[idx].pointedAt) = averagePoseStack(poseStack'[idx])]_vars

\* C9 witness: the pose at index 2 has just been enriched while index 1 holds a
\* different history.
C9_Witness ==
  /\ pc = "calcXY"
  /\ idx = 3
  /\ poseStack[1] # <<>>
  /\ poseStack[2] # <<>>
  /\ poseStack[1] # poseStack[2]

\* C10: after the first push for a track index the averaged output equals the
\* pushed {x, y} exactly.
C10_FirstSampleIdempotent ==
  \A i \in Range(xyOrder) :
    Len(pushed[i]) = 1 => XY(poses[i].pointedAt) = pushed[i][1]

\* C10 witness: a first sample with a non-zero rotation shift has just been
\* averaged.
C10_Witness ==
  \E i \in Range(xyOrder) :
    /\ Len(pushed[i]) = 1
    /\ Determinate(pushed[i][1])
    /\ pushed[i][1].x.b # RZero

\* the sum of one coordinate of the samples, taken from the oldest to the newest
RECURSIVE Total(_, _)
Total(seq, c) == IF seq = <<>> THEN Num(0) ELSE Add(seq[1][c], Total(Tail(seq), c))
Held(k) == LastN(pushed[k], Min(Len(pushed[k]), PoseStackSize))

\* C11: the smoothed pointedAt x/y written in a pass is the unweighted mean of
\* the samples held after the current sample was pushed and the eviction was
\* applied: x is the sum of the held x values divided by the number of held
\* samples, y the sum of the held y values divided by the same number.
C11_SmoothedIsMean ==
  \A i \in Range(xyOrder) :
    /\ Held(i) # <<>>
    /\ poses[i].pointedAt.x = Div(Total(Held(i), "x"), Num(Len(Held(i))))
    /\ poses[i].pointedAt.y = Div(Total(Held(i), "y"), Num(Len(Held(i))))

\* C11 witness: a pose was smoothed over a full history of different samples
\* after an older sample had been evicted.
C11_Witness ==
  \E i \in Range(xyOrder) :
    /\ Len(pushed[i]) > PoseStackSize
    /\ Determinate(poses[i].pointedAt)
    /\ Held(i)[1] # Held(i)[Len(Held(i))]
    /\ poses[i].pointedAt.x # poses[i].pointedAt.y

\* the entries this.plugins holds under a name
Entries(name) == {i \in 1..Len(plugins) : plugins[i][1] = name}

\* C12: after any sequence of use(name, cb) calls every name maps to exactly
\* one callback, the one the latest use() with that name passed (so a use()
\* under one name leaves the other names alone), and a pass invokes only these
\* callbacks: a callback replaced under its name is not invoked again.
C12_LatestRegistrationWins ==
  /\ \A n \in PluginNames :
       IF registry[n].latest = "none"
       THEN Entries(n) = {}
       ELSE /\ Cardinality(Entries(n)) = 1
            /\ \A i \in Entries(n) : plugins[i][2] = registry[n].latest
  /\ \A e \in Range(called) :
       /\ e[2] = registry[e[1]].latest
       /\ e[2] \notin registry[e[1]].earlier

\* C12 witness: a pass has invoked the callback that replaced an earlier one
\* under its name, and the callback registered under the other name.
C12_Witness ==
  /\ pc = "plugins"
  /\ Len(called) = 2
  /\ \E e \in Range(called) : registry[e[1]].earlier # {}

\* the horizontal distances from the nose to the left and to the right eye
DL(pose) == MathAbs(Sub(pose.keypoints.leftEye.position.x, pose.keypoints.nose.position.x))
DR(pose) == MathAbs(Sub(pose.keypoints.rightEye.position.x, pose.keypoints.nose.position.x))
YawApplied == probe.phase \in {"yaw", "z", "xy"}
ZApplied == probe.phase \in {"z", "xy"}
XYApplied == probe.phase = "xy"

\* C13: for every pose whose horizontal nose-to-left-eye distance equals its
\* horizontal nose-to-right-eye distance, whatever the common distance is,
\* calculateHeadYaw returns 0.
C13_EqualDistancesZeroYaw ==
  (YawApplied /\ DL(probe.pose) = DR(probe.pose)) => probe.out.yaw[1] = Num(0)

\* the second pose has the two horizontal nose-to-eye distances of the first exchanged
Exchanged == DL(probe.other) = DR(probe.pose) /\ DR(probe.other) = DL(probe.pose)
Positive(n) == IsFinite(n) /\ Sign(n) > 0

\* C14: two poses that differ by exchanging the horizontal nose-to-eye
\* distances (dL, dR) -> (dR, dL), dL # dR, get yaws of equal magnitude and
\* opposite sign, and the yaw is positive exactly when dL > dR.
C14_ExchangeFlipsYaw ==
  (YawApplied /\ Exchanged /\ DL(probe.pose) # DR(probe.pose)) =>
    /\ IsFinite(probe.out.yaw[1])
    /\ probe.out.yaw[1] # Num(0)
    /\ probe.out.yaw[2] = Neg(probe.out.yaw[1])
    /\ Positive(probe.out.yaw[1]) <=> Gt(DL(probe.pose), DR(probe.pose))

\* C14 witness: distances 40 and 20 give pi/4, the exchanged distances -pi/4.
C14_Witness ==
  /\ YawApplied
  /\ Exchanged
  /\ DL(probe.pose) = Num(40)
  /\ DR(probe.pose) = Num(20)
  /\ probe.out.yaw[1] = Div(PI, Num(4))
  /\ probe.out.yaw[2] = Neg(Div(PI, Num(4)))

\* C15: for every pose in which at least one horizontal nose-to-eye distance is
\* not zero the yaw is a finite multiple r * pi/2 of pi/2 with -1 <= r <= 1, so
\* that its magnitude is at most pi/2 (the ratio lies in [0, 1]).
C15_YawBounded ==
  (YawApplied /\ (DL(probe.pose) # Num(0) \/ DR(probe.pose) # Num(0))) =>
    /\ IsFinite(probe.out.yaw[1])
    /\ probe.out.yaw[1].a = RZero
    /\ LET r == Mul(Q(probe.out.yaw[1].b), Num(2))
       IN  Geq(r, Num(-1)) /\ Geq(Num(1), r)

\* C15 witness: one eye straight above the nose, the yaw reaches pi/2.
C15_Witness ==
  /\ YawApplied
  /\ DR(probe.pose) = Num(0)
  /\ DL(probe.pose) = Num(40)
  /\ probe.out.yaw[1] = Div(PI, Num(2))

\* the area of the nose / left eye / right eye triangle, by the shoelace formula
Shoelace(pose) ==
  LET k == pose.keypoints
      term(a, b, c) == Mul(a.position.x, Sub(b.position.y, c.position.y))
  IN  Div(MathAbs(Add(Add(term(k.nose, k.leftEye, k.rightEye),
                          term(k.leftEye, k.rightEye, k.nose)),
                      term(k.rightEye, k.nose, k.leftEye))), Num(2))

C17_RawIsMirroredScaled ==
  XYApplied =>
    LET nose == probe.pose.keypoints.nose.position
    IN  /\ probe.out.raw.x = Sub(Num(outerWidth),
                                 Mul(nose.x, Div(Num(outerWidth), Num(CanvasWidth))))
        /\ probe.out.raw.y = Mul(nose.y, Div(Num(outerHeight), Num(CanvasHeight)))
        /\ nose.x = Num(0) => probe.out.raw.x = Num(outerWidth)
        /\ nose.x = Num(CanvasWidth) => probe.out.raw.x = Num(0)

\* C17 witness: a nose on the right edge of the canvas, below its top, under a
\* window larger than the canvas.
C17_Witness ==
  /\ XYApplied
  /\ outerWidth = 1000
  /\ probe.pose.keypoints.nose.position = [x |-> Num(CanvasWidth), y |-> Num(250)]
  /\ probe.out.raw = [x |-> Num(0), y |-> Num(400)]

\* the scenario: window 1000 x 800, nose at (300, 250), the eyes at the same
\* non-zero distance on either side of the nose, both ears above the threshold
\* and level with the nose
CentredScenario ==
  LET k == probe.pose.keypoints
  IN  /\ outerWidth = 1000
      /\ outerHeight = 800
      /\ k.nose.position = [x |-> Num(300), y |-> Num(250)]
      /\ Sub(k.leftEye.position.x, k.nose.position.x)
           = Sub(k.nose.position.x, k.rightEye.position.x)
      /\ k.leftEye.position.x # k.rightEye.position.x
      /\ Gt(k.leftEar.score, MinPartConfidence)
      /\ Gt(k.rightEar.score, MinPartConfidence)
      /\ k.leftEar.position.y = k.nose.position.y
      /\ k.rightEar.position.y = k.nose.position.y

\* C18: in the scenario the first pass of the track yields yaw = 0, pitch = 0
\* and pointedAt x = 500, y = 400, the smoothed value being the raw value.
C18_CentredFaceCentredPoint ==
  (XYApplied /\ CentredScenario) =>
    /\ probe.out.first.angles.yaw = Num(0)
    /\ probe.out.first.angles.pitch = Num(0)
    /\ probe.out.first.pointedAt.x = Num(500)
    /\ probe.out.first.pointedAt.y = Num(400)
    /\ XY(probe.out.first.pointedAt) = probe.out.raw

\* C18 witness: the scenario with the eyes 40 to the left and to the right of
\* the nose and above it.
C18_Witness ==
  /\ XYApplied
  /\ CentredScenario
  /\ probe.pose.keypoints.leftEye.position = [x |-> Num(340), y |-> Num(240)]
  /\ probe.out.first.pointedAt.x = Num(500)

\* the callback of start() call s is invoked in this step
CallbackInvoked(s) == starts[s] # "done" /\ starts'[s] = "done"

\* C19: the callback passed to start(cb) is invoked at most once per start()
\* call, and only when the feed of that call was set up, this.posenet is set
\* and the call's trackPosesLoop was entered and has returned; never before
\* the pose model is loaded.
C19_CallbackAfterReady ==
  [][\A s \in StartIds :
       /\ CallbackInvoked(s) =>
            /\ starts[s] = "looping"
            /\ pc = "cb"
            /\ caller = s
            /\ posenet
            /\ resizeListeners >= 1
       /\ starts[s] = "done" => starts'[s] = "done"]_vars

\* C19 witness: two start() calls on the instance have each invoked their
\* callback.
C19_Witness ==
  /\ \A s \in StartIds : starts[s] = "done"
  /\ posenet
  /\ resizeListeners = 2

\* C20: a callback that throws during a pass does not stop the frame loop and
\* does not alter the state of the core: the pass goes on to its remaining
\* callbacks or to its scheduling line (where the next pass is scheduled), with
\* the histories and the cached window area as the enrichment left them.
C20_FailingCallbackContained ==
  [][(pc = "plugins" /\ idx <= Len(plugins) /\ Throws(plugins[idx][2])) =>
       /\ pc' \in {"plugins", "sched"}
       /\ poseStack' = poseStack
       /\ cacheArea' = cacheArea]_vars

\* the mean of the samples of a history
Mean(stack) ==
  [x |-> Div(Total(stack, "x"), Num(Len(stack))), y |-> Div(Total(stack, "y"), Num(Len(stack)))]

\* C24: a history that holds samples is never emptied or removed; a step
\* changes the history of index k only by enriching the pose at index k, so
\* the histories of the indexes a frame does not have are left as they were;
\* and when index k is enriched (again) its history is the retained samples
\* followed by the new sample, and its smoothed output is their mean.
C24_HistoriesRetained ==
  [][\A k \in Tracks :
       /\ poseStack[k] # <<>> => poseStack'[k] # <<>>
       /\ poseStack'[k] # poseStack[k] =>
            (pc = "calcXY" /\ idx = k /\ k <= Len(poses) /\ xyOrder' = Append(xyOrder, k))
       /\ (pc = "calcXY" /\ idx = k /\ xyOrder' # xyOrder) =>
            LET kept == IF Len(poseStack[k]) < PoseStackSize
                        THEN poseStack[k] ELSE Tail(poseStack[k])
                sample == pushed'[k][Len(pushed'[k])]
            IN  /\ poseStack'[k] = Append(kept, sample)
                /\ XY(poses'[k].pointedAt) = Mean(Append(kept, sample))]_vars

\* C24 witness: index 2 was enriched in a frame of two poses, was missing from
\* the next frame (one pose, not turned, at index 1) and has just been enriched
\* again in a frame of two poses, its history holding both of its samples.
C24_Witness ==
  /\ pc = "calcXY"
  /\ 2 \in Range(xyOrder)
  /\ Len(pushed[1]) = 3
  /\ pushed[1][1].x.b # RZero
  /\ pushed[1][2].x.b = RZero
  /\ pushed[1][3].x.b # RZero
  /\ Len(pushed[2]) = 2
  /\ Len(poseStack[2]) = 2
  /\ Determinate(poses[2].pointedAt)

\* setupFeed has run and every change of the window size has been notified
Notified == resizeListeners >= 1 /\ ~resizePending

\* C25: once setupFeed has run, in every state in which the latest change of
\* the window size has been notified the cached area is the current width
\* times the current height of the window; a pass running in such a state has
\* computed z from the very dimensions it used for x and y; and the window
\* dimensions change only in a step of the environment, never in a step of
\* the core.
C25_CacheFollowsWindow ==
  [][/\ Notified' => cacheArea' = Num(outerWidth' * outerHeight')
     /\ (Notified' /\ pc' \in {"emitCalc", "emitLoop"}) =>
          \A i \in 1..Len(poses') :
            /\ poses'[i].pointedAt.z
                 = Div(Num(outerWidth' * outerHeight'), Shoelace(poses'[i]))
            /\ pushed'[i][Len(pushed'[i])] = ShiftedXY(poses'[i], outerWidth', outerHeight')
     /\ <<outerWidth', outerHeight'>> # <<outerWidth, outerHeight>> =>
          /\ pc = "idle" /\ pc' = "idle"
          /\ resizePending' /\ ~resizePending
          /\ cacheArea' = cacheArea /\ poseStack' = poseStack /\ poses' = poses]_vars

\* C25 witness: the centred pose was sampled under a window 1000 wide and under
\* a window 1200 wide, and the running pass has computed a finite z after the
\* change was notified.
C25_Witness ==
  /\ host.resizes
  /\ Notified
  /\ pc = "emitCalc"
  /\ \E a, b \in Range(pushed[1]) : a.x = Num(500) /\ b.x = Num(600)
  /\ \E i \in 1..Len(poses) : IsFinite(poses[i].pointedAt.z)

\* the degenerate inputs of the probe pose
Meets(keypoint) == Gt(keypoint.score, MinPartConfidence) \/ keypoint.score = MinPartConfidence
NoEarFound == ~Meets(probe.pose.keypoints.leftEar) /\ ~Meets(probe.pose.keypoints.rightEar)
ZeroEyeSpan ==
  probe.pose.keypoints.leftEye.position.x = probe.pose.keypoints.rightEye.position.x
ZeroArea == Shoelace(probe.pose) = Num(0)
Indefinite(n) == n \in {NaN, PInf, NInf}

\* C21: a pose with no ear on or above the threshold, with a zero eye span or
\* with a nose / eye triangle of area zero raises no error: calculateXY and
\* calculateZ enrich it like any other pose, the pitch written is NaN or
\* infinite in the first two cases and the z written is NaN or infinite in the
\* third, and they are the values calculateHeadPitch and calculateZ return.
C21_DegenerateNotRaised ==
  XYApplied =>
    /\ probe.out.later.samples = 1
    /\ probe.out.later.angles.pitch = calculateHeadPitch(probe.pose)
    /\ probe.out.later.pointedAt.z = probe.out.z[1]
    /\ probe.out.later.angles.yaw # Undefined
    /\ probe.out.later.pointedAt.x # Undefined
    /\ probe.out.later.pointedAt.y # Undefined
    /\ (NoEarFound \/ ZeroEyeSpan) => Indefinite(probe.out.later.angles.pitch)
    /\ ZeroArea => Indefinite(probe.out.later.pointedAt.z)

\* C21 witness: a pose that is degenerate in the three ways at once, enriched
\* with a pitch that is NaN and an infinite z.
C21_Witness ==
  /\ XYApplied
  /\ NoEarFound
  /\ ZeroEyeSpan
  /\ ZeroArea
  /\ probe.out.later.angles.pitch = NaN
  /\ probe.out.later.pointedAt.z = PInf

\* the mean y of the ears whose score is on or above the threshold
EarAverage(pose) ==
  LET l == pose.keypoints.leftEar
      r == pose.keypoints.rightEar
  IN  CASE Meets(l) /\ Meets(r) -> Div(Add(l.position.y, r.position.y), Num(2))
        [] Meets(l) /\ ~Meets(r) -> l.position.y
        [] ~Meets(l) /\ Meets(r) -> r.position.y
        [] OTHER -> NaN

\* C22: the pitch is (pi/2) * (nose.y - ear average) / (leftEye.x - rightEye.x)
\* with the eye span signed, the ear average being the mean y of exactly the
\* ears whose score is greater than or equal to minPartConfidence: an ear on
\* the threshold counts, an ear below it does not, one qualifying ear is the
\* average by itself.
C22_PitchFromQualifyingEars ==
  (XYApplied /\ ~NoEarFound) =>
    LET k == probe.pose.keypoints
        span == Sub(k.leftEye.position.x, k.rightEye.position.x)
        rise == Sub(k.nose.position.y, EarAverage(probe.pose))
    IN  probe.out.first.angles.pitch = Mul(Div(PI, Num(2)), Div(rise, span))

\* C22 witness: the left ear is on the threshold, the right ear below it and at
\* another height; the eyes are 40 apart and the left ear 20 above the nose,
\* which gives pi/4.
C22_Witness ==
  /\ XYApplied
  /\ probe.pose.keypoints.leftEar.score = MinPartConfidence
  /\ ~Meets(probe.pose.keypoints.rightEar)
  /\ probe.pose.keypoints.rightEar.position.y # probe.pose.keypoints.leftEar.position.y
  /\ probe.out.first.angles.pitch = Div(PI, Num(4))

\* C23: z, yaw and pitch of a pose do not depend on the smoothing history: the
\* pass that finds the history earlier frames have left writes the same yaw and
\* pitch as the first pass of a track and the same z as calculateZ applied to
\* the pose before any enrichment; they are the values computed from the
\* keypoints and the cached area alone.
C23_DepthAndAnglesIgnoreHistory ==
  XYApplied =>
    /\ probe.out.later.angles = probe.out.first.angles
    /\ probe.out.later.angles.yaw = probe.out.yaw[1]
    /\ probe.out.later.pointedAt.z = probe.out.z[1]
    /\ probe.out.later.pointedAt.z = Div(cacheArea, Shoelace(probe.pose))

\* C23 witness: with a history of two samples the smoothed x and y differ from
\* those of the first pass, while pitch and z are finite and not zero.
C23_Witness ==
  /\ XYApplied
  /\ Len(poseStack[1]) = 2
  /\ Determinate(probe.out.later.pointedAt)
  /\ probe.out.later.pointedAt.x # probe.out.first.pointedAt.x
  /\ probe.out.later.pointedAt.y # probe.out.first.pointedAt.y
  /\ IsFinite(probe.out.later.pointedAt.z)
  /\ IsFinite(probe.out.later.angles.pitch)
  /\ probe.out.later.angles.pitch # Num(0)

\* the poses of the frame that reach minPoseConfidence
Qualifying ==
  {i \in 1..Len(poses) :
     Gt(poses[i].score, MinPoseConfidence) \/ poses[i].score = MinPoseConfidence}

\* C26: after debugPoses() has returned the canvas holds the overlay of every
\* pose of this.poses whose score is at least minPoseConfidence, and nothing
\* was drawn for the other poses.
C26_EveryQualifyingPoseDrawn ==
  probe.phase = "debug" =>
    /\ \A i \in Qualifying : poses[i].keypoints \in probe.out.canvas
    /\ \A overlay \in probe.out.canvas \ probe.canvas :
         \E i \in Qualifying : overlay = poses[i].keypoints

====
